---- MODULE Spec2Model ----
(***************************************************************************)
(* Model of branch-switcher (src/main.go): the bubbletea model/Update      *)
(* state machine, the tea.Tick command built by processProjects, and the   *)
(* git command sequence of switchBranch run against a small model of each  *)
(* repository's branches.                                                  *)
(***************************************************************************)
EXTENDS Integers, Sequences, FiniteSets, TLC

\* ------------------------------------------------------------------ bounds
NumProjects == 2        \* len(m.projects); main() exits when it is 0
MaxBatches == 2         \* tea.Tick commands issued in one run
MaxNameLen == 1         \* characters typed into branchName
MaxKeys == 5            \* key presses in one run
NumNames == 3           \* entry names a parent directory may hold
MaxUIKeys == 7          \* key presses in one run when no command is run
MaxRunKeys == 3         \* key presses after the action was confirmed

Projects == 0 .. (NumProjects - 1)

\* ------------------------------------------------------------------ types
modeSelectAction == "modeSelectAction"
modeSelectProjects == "modeSelectProjects"
modeEnterBranch == "modeEnterBranch"
modeProcessing == "modeProcessing"

msgProcessComplete == "msgProcessComplete"
msgError == "msgError"

\* msg.String() of the key presses the handlers distinguish.  In
\* updateBranchInput " " and "a" are single-character keys with no case of
\* their own.
Keys == {"q", "esc", "up", "down", " ", "a", "enter", "backspace"}

\* len(msg.String())
KeyLen(key) == IF key \in {"q", " ", "a", "k", "j"} THEN 1 ELSE 2

\* The stages of switchBranch, in program order.
Stages == <<"stash", "fetch", "branchD", "checkout", "pull", "checkoutB">>

NoProject == -1

VARIABLES
    selected,     \* m.selected: Go map[int]bool, a function on the keys present
    cursor,       \* m.cursor
    mode,         \* m.mode
    action,       \* m.action
    branchName,   \* m.branchName, a sequence of one-character keys
    processing,   \* m.processing
    error,        \* m.error
    quit,         \* tea.Quit has been returned: the program has ended
    fatal,        \* the Go runtime has thrown: the process has died
    batches,      \* the tea.Tick commands issued so far, in order
    repo,         \* per project: the git repository at project.path
    remote,       \* per project: what origin answers
    repoInit,     \* repo as it was when the program started
    nkeys,        \* key messages Update has handled so far
    shown,        \* the error text the last View() call rendered
    dirs,         \* the parent directory: entry name -> kind of entry
    found,        \* findProjects(): whether it has run, and what it returned
    keyLimit      \* the run is cut off after this many key presses

vars == <<selected, cursor, mode, action, branchName, processing, error, quit,
          fatal, batches, repo, remote, repoInit, nkeys, shown, dirs, found,
          keyLimit>>

uiVars == <<selected, cursor, mode, action, branchName, processing, error, quit,
            fatal, nkeys>>

\* What main() fixes before the program runs.
startVars == <<repoInit, dirs, found, keyLimit>>

\* The process is alive.
Running == ~quit /\ ~fatal

\* ------------------------------------------------------------- Go map[int]bool
EmptyMap == [i \in {} |-> TRUE]

\* m[i]: the zero value false for an absent key
MapGet(m, i) == IF i \in DOMAIN m THEN m[i] ELSE FALSE

\* m[i] = v
MapSet(m, i, v) == [j \in (DOMAIN m) \cup {i} |-> IF j = i THEN v ELSE m[j]]

\* len(m): the number of keys, whatever their values
MapLen(m) == Cardinality(DOMAIN m)

\* for i := range m.projects { m.selected[i] = true }
SelectAll(m) == [j \in (DOMAIN m) \cup Projects |-> IF j \in Projects THEN TRUE ELSE m[j]]

\* The repositories a map marks selected.
SelectedSet(m) == {i \in DOMAIN m : m[i]}

\* ------------------------------------------------------------- git repository
\* The part of a repository the issued commands read or write: the checked
\* out branch ("main", "other" or "feature"), whether a local branch main
\* exists, and the names of the local branches created by checkout -b.
\* stashFails says whether `git stash` exits non-zero in this repository (no
\* committer identity, say); switchBranch ignores that status.
\* A repository starts with a local main, checked out or not, and with or
\* without a branch named "a".
RepoInits ==
    {[head |-> h, localMain |-> TRUE, branches |-> bs, stashFails |-> FALSE] :
        h \in {"main", "other"}, bs \in {{}, {<<"a">>}}}

\* Every repository a switchBranch call may meet: also one with no local
\* main, and one where stash fails.
RepoStates ==
    {[head |-> h, localMain |-> lm, branches |-> bs, stashFails |-> sf] :
        h \in {"main", "other"}, lm \in BOOLEAN, bs \in {{}, {<<"a">>}},
        sf \in BOOLEAN}
    \ {[head |-> "main", localMain |-> FALSE, branches |-> bs, stashFails |-> sf] :
        bs \in {{}, {<<"a">>}}, sf \in BOOLEAN}

\* What origin answers: "ok"; "unreachable" (fetch and pull fail); "noMain"
\* (there is no origin/main to track); "pullFails" (fetch works, pull fails).
RemoteInits == {"ok", "unreachable", "noMain", "pullFails"}

\* git check-ref-format: a branch name holds no space.
ValidName(name) == \A i \in 1 .. Len(name) : name[i] # " "

\* Exit status 0 of `git -C path <stage command>` in repository state g
\* against remote answer rm; name is the checkout -b argument.
GitOk(stage, g, rm, name) ==
    CASE stage = "stash" -> ~g.stashFails
      [] stage = "fetch" -> rm # "unreachable"
      [] stage = "branchD" -> g.localMain /\ g.head # "main"
      [] stage = "checkout" -> rm # "noMain" /\ ~g.localMain
      [] stage = "pull" -> rm \notin {"unreachable", "pullFails"}
      [] stage = "checkoutB" -> ValidName(name) /\ name \notin g.branches

\* The repository after the command; a failed command changes nothing.
GitApply(stage, g, rm, name) ==
    IF ~GitOk(stage, g, rm, name) THEN g
    ELSE CASE stage = "branchD" -> [g EXCEPT !.localMain = FALSE]
           [] stage = "checkout" -> [g EXCEPT !.localMain = TRUE, !.head = "main"]
           [] stage = "checkoutB" ->
                [g EXCEPT !.branches = @ \cup {name}, !.head = "feature"]
           [] OTHER -> g

\* StageError with the result of stash checked as well.
StageErrorStash(stage) ==
    CASE stage = "stash" -> "failed to stash"
      [] stage = "fetch" -> "failed to fetch"
      [] stage = "checkout" -> "failed to checkout main"
      [] stage = "pull" -> "failed to pull"
      [] stage = "checkoutB" -> "failed to create branch"
      [] OTHER -> ""

\* The error switchBranch returns when the stage's command fails; "" when
\* the result of the command is ignored.
StageError(stage) ==
    CASE stage = "fetch" -> "failed to fetch"
      [] stage = "checkout" -> "failed to checkout main"
      [] stage = "pull" -> "failed to pull"
      [] stage = "checkoutB" -> "failed to create branch"
      [] OTHER -> ""

\* NextStage with the deletion of the local main left out.
NextStageSkipsDelete(stage, name) ==
    CASE stage = "stash" -> "fetch"
      [] stage = "fetch" -> "checkout"
      [] stage = "branchD" -> "checkout"
      [] stage = "checkout" -> "pull"
      [] stage = "pull" -> IF name # <<>> THEN "checkoutB" ELSE "done"
      [] stage = "checkoutB" -> "done"

\* The stage switchBranch runs after a stage that did not return.
NextStage(stage, name) ==
    CASE stage = "stash" -> "fetch"
      [] stage = "fetch" -> "branchD"
      [] stage = "branchD" -> "checkout"
      [] stage = "checkout" -> "pull"
      [] stage = "pull" -> IF name # <<>> THEN "checkoutB" ELSE "done"
      [] stage = "checkoutB" -> "done"

\* Aborts with only the fetch checked.
AbortsOnFetchOnly(stage, ok) == ~ok /\ stage = "fetch"

\* switchBranch returns an error from this stage: its command failed and
\* its result is checked.
Aborts(stage, ok) == ~ok /\ StageError(stage) # ""

\* switchBranch from `stage` on: the error returned ("" for nil) and the
\* repository left behind.
RECURSIVE switchBranchFrom(_, _, _, _)
switchBranchFrom(stage, g, rm, name) ==
    IF stage = "done" THEN [err |-> "", repo |-> g]
    ELSE IF Aborts(stage, GitOk(stage, g, rm, name))
         THEN [err |-> StageError(stage), repo |-> g]
         ELSE switchBranchFrom(NextStage(stage, name), GitApply(stage, g, rm, name),
                               rm, name)

\* switchBranch(projectPath, branchName) as one call.
switchBranch(g, rm, name) == switchBranchFrom("stash", g, rm, name)

\* ------------------------------------------------------------- tea.Tick command
\* One record per command returned by processProjects.  The closure holds the
\* model value m of the launching Update: its map m.selected is the very map
\* the state machine keeps using (shared) until the state machine replaces
\* its own with make(); from then on the closure's map is `sel`.
\*   pc       "tick" before the timer fires, "range" in the loop header, a
\*            stage name inside switchBranch, "returned" once the function has
\*            returned its message, "consumed" once Update has received it
\*   atStart  keys present when the range statement started
\*   visited  keys the range statement has produced
\*   cur      the id of the current iteration
\*   ret      per project, what its switchBranch call returned
\*   work     the repositories selected at the launching confirm
NoRet == "none"

NewBatch(name) ==
    [shared |-> TRUE, sel |-> EmptyMap, branch |-> name, pc |-> "tick",
     atStart |-> {}, visited |-> {}, cur |-> NoProject,
     ret |-> [p \in Projects |-> NoRet], msg |-> "none", err |-> "",
     work |-> SelectedSet(selected)]

\* The map the closure's m.selected refers to.
BatchMap(b) == IF b.shared THEN selected ELSE b.sel

\* m.selected = make(map[int]bool) in the state machine: closures that
\* shared the old map keep it.
Detach(bs) ==
    [k \in DOMAIN bs |->
        IF bs[k].shared THEN [bs[k] EXCEPT !.shared = FALSE, !.sel = selected]
        ELSE bs[k]]

\* ------------------------------------------------------------- findProjects
\* Entry names are byte strings.  The names a parent directory may hold, in
\* no particular order: "b", "A", "ab", "a", "B".
AllNames == << <<98>>, <<65>>, <<97, 98>>, <<97>>, <<66>> >>

DirNames == {AllNames[i] : i \in 1 .. NumNames}

\* An entry is a plain file ("file"), a directory with no .git ("dir"), a
\* directory whose .git is a file ("gitfile") or a directory whose .git is
\* a directory ("gitdir").
Kinds == {"file", "dir", "gitfile", "gitdir"}

Listings == UNION {[ns -> Kinds] : ns \in SUBSET DirNames}

\* Go's < on strings: byte-wise lexicographic order.
ByteLess(a, b) ==
    \E i \in 1 .. (Len(a) + 1) :
        /\ i <= Len(b)
        /\ \A j \in 1 .. (i - 1) : a[j] = b[j]
        /\ (i = Len(a) + 1 \/ a[i] < b[i])

\* os.ReadDir(parentDir): the entries, sorted by filename.
RECURSIVE ReadDirFrom(_, _)
ReadDirFrom(d, names) ==
    IF names = {} THEN <<>>
    ELSE LET n == CHOOSE x \in names : \A y \in names \ {x} : ByteLess(x, y)
         IN <<[name |-> n, kind |-> d[n]]>> \o ReadDirFrom(d, names \ {n})

ReadDir(d) == ReadDirFrom(d, DOMAIN d)

\* dir.IsDir()
IsDir(kind) == kind # "file"

\* stat, err := os.Stat(gitPath); err == nil && stat.IsDir()
GitIsDir(kind) == kind = "gitdir"

\* The loop over dirs: append project{name, path} for each entry that is a
\* directory holding a .git directory.
RECURSIVE ScanDirs(_)
ScanDirs(entries) ==
    IF entries = <<>> THEN <<>>
    ELSE LET e == Head(entries)
             rest == ScanDirs(Tail(entries))
         IN IF IsDir(e.kind) /\ GitIsDir(e.kind)
            THEN <<[name |-> e.name, path |-> <<"parentDir", e.name>>]>> \o rest
            ELSE rest

\* ProjectLess in descending order.
ProjectLessReversed(x, y) == ByteLess(y.name, x.name)

\* The less function handed to sort.Slice: projects[i].name < projects[j].name
ProjectLess(x, y) == ByteLess(x.name, y.name)

\* sort.Slice(projects, less)
RECURSIVE SortInsert(_, _)
SortInsert(x, sq) ==
    IF sq = <<>> THEN <<x>>
    ELSE IF ProjectLess(x, Head(sq)) THEN <<x>> \o sq
         ELSE <<Head(sq)>> \o SortInsert(x, Tail(sq))

RECURSIVE SortSlice(_)
SortSlice(sq) ==
    IF sq = <<>> THEN <<>> ELSE SortInsert(Head(sq), SortSlice(Tail(sq)))

findProjects(d) == SortSlice(ScanDirs(ReadDir(d)))

NotFound == [done |-> FALSE, projects |-> <<>>]

\* The parent directory of a run with NumProjects repositories.
StartDir == [n \in {AllNames[i] : i \in 1 .. NumProjects} |-> "gitdir"]

\* ------------------------------------------------------------- initial state
\* main(): initialModel{projects, selected: make(map[int]bool), mode:
\* modeSelectAction}; every other field has its zero value.
Init ==
    /\ selected = EmptyMap
    /\ cursor = 0
    /\ mode = modeSelectAction
    /\ action = 0
    /\ branchName = <<>>
    /\ processing = FALSE
    /\ error = ""
    /\ quit = FALSE
    /\ fatal = FALSE
    /\ batches = <<>>
    /\ repo \in [Projects -> RepoInits]
    /\ remote \in [Projects -> RemoteInits]
    /\ repoInit = repo
    /\ nkeys = 0
    /\ shown = ""
    /\ dirs = StartDir
    /\ found = [done |-> TRUE, projects |-> findProjects(StartDir)]
    /\ keyLimit = MaxKeys

\* processProjects(name): the command handed back to the runtime.
processProjects(name) ==
    /\ Len(batches) < MaxBatches
    /\ batches' = Append(batches, NewBatch(name))

\* ------------------------------------------------------------- updateActionSelect
ActionSelectQuit(key) ==
    /\ key \in {"q", "ctrl+c"}
    /\ quit' = TRUE
    /\ UNCHANGED <<selected, cursor, mode, action, branchName, processing, error,
                   fatal, batches, repo, remote>>

ActionSelectUp(key) ==
    /\ key \in {"up", "k"}
    /\ cursor' = IF cursor > 0 THEN cursor - 1 ELSE cursor
    /\ UNCHANGED <<selected, mode, action, branchName, processing, error, quit,
                   fatal, batches, repo, remote>>

ActionSelectDown(key) ==
    /\ key \in {"down", "j"}
    /\ cursor' = IF cursor < 1 THEN cursor + 1 ELSE cursor
    /\ UNCHANGED <<selected, mode, action, branchName, processing, error, quit,
                   fatal, batches, repo, remote>>

\* ActionSelectEnter with the cursor left where it is.
ActionSelectEnterKeepsCursor(key) ==
    /\ key = "enter"
    /\ action' = cursor
    /\ mode' = modeSelectProjects
    /\ selected' = SelectAll(selected)
    /\ UNCHANGED <<cursor, branchName, processing, error, quit, fatal, batches,
                   repo, remote>>

ActionSelectEnter(key) ==
    /\ key = "enter"
    /\ action' = cursor
    /\ mode' = modeSelectProjects
    /\ cursor' = 0
    /\ selected' = SelectAll(selected)
    /\ UNCHANGED <<branchName, processing, error, quit, fatal, batches, repo, remote>>

updateActionSelect ==
    /\ Running
    /\ nkeys < keyLimit
    /\ nkeys' = nkeys + 1
    /\ UNCHANGED <<startVars, shown>>
    /\ mode = modeSelectAction
    /\ \E key \in Keys :
        \/ ActionSelectQuit(key)
        \/ ActionSelectUp(key)
        \/ ActionSelectDown(key)
        \/ ActionSelectEnter(key)

\* ------------------------------------------------------------- updateProjectSelect
ProjectSelectQuit(key) ==
    /\ key \in {"q", "ctrl+c"}
    /\ quit' = TRUE
    /\ UNCHANGED <<selected, cursor, mode, action, branchName, processing, error,
                   fatal, batches, repo, remote>>

ProjectSelectEsc(key) ==
    /\ key = "esc"
    /\ mode' = modeSelectAction
    /\ cursor' = 0
    /\ selected' = EmptyMap
    /\ batches' = Detach(batches)
    /\ UNCHANGED <<action, branchName, processing, error, quit, fatal, repo, remote>>

ProjectSelectUp(key) ==
    /\ key \in {"up", "k"}
    /\ cursor' = IF cursor > 0 THEN cursor - 1 ELSE cursor
    /\ UNCHANGED <<selected, mode, action, branchName, processing, error, quit,
                   fatal, batches, repo, remote>>

\* ProjectSelectDown without the test against the last index.
ProjectSelectDownUnbounded(key) ==
    /\ key \in {"down", "j"}
    /\ cursor' = cursor + 1
    /\ UNCHANGED <<selected, mode, action, branchName, processing, error, quit,
                   fatal, batches, repo, remote>>

ProjectSelectDown(key) ==
    /\ key \in {"down", "j"}
    /\ cursor' = IF cursor < NumProjects - 1 THEN cursor + 1 ELSE cursor
    /\ UNCHANGED <<selected, mode, action, branchName, processing, error, quit,
                   fatal, batches, repo, remote>>

\* m.selected[m.cursor] = !m.selected[m.cursor]
ToggleOne(m, c) == MapSet(m, c, ~MapGet(m, c))

ProjectSelectToggle(key) ==
    /\ key = " "
    /\ selected' = ToggleOne(selected, cursor)
    /\ UNCHANGED <<cursor, mode, action, branchName, processing, error, quit,
                   fatal, batches, repo, remote>>

\* ToggleAll with the refill left out.
ToggleAllClears(m) == EmptyMap

\* allSelected := len(m.selected) == len(m.projects); the map is replaced and
\* refilled when !allSelected.
ToggleAll(m) == IF MapLen(m) = NumProjects THEN EmptyMap ELSE SelectAll(EmptyMap)

ProjectSelectAll(key) ==
    /\ key = "a"
    /\ selected' = ToggleAll(selected)
    /\ batches' = Detach(batches)
    /\ UNCHANGED <<cursor, mode, action, branchName, processing, error, quit,
                   fatal, repo, remote>>

\* if len(m.selected) == 0
NoneSelected(m) == MapLen(m) = 0

\* ProjectSelectEnter handing the plain switch the branch name as well.
ProjectSelectEnterPassesName(key) ==
    /\ key = "enter"
    /\ IF NoneSelected(selected)
       THEN /\ error' = "No projects selected"
            /\ UNCHANGED <<mode, branchName, batches>>
       ELSE IF action = 1
            THEN /\ mode' = modeEnterBranch
                 /\ branchName' = <<>>
                 /\ UNCHANGED <<error, batches>>
            ELSE /\ processProjects(branchName)
                 /\ UNCHANGED <<mode, branchName, error>>
    /\ UNCHANGED <<selected, cursor, action, processing, quit, fatal, repo, remote>>

ProjectSelectEnter(key) ==
    /\ key = "enter"
    /\ IF NoneSelected(selected)
       THEN /\ error' = "No projects selected"
            /\ UNCHANGED <<mode, branchName, batches>>
       ELSE IF action = 1
            THEN /\ mode' = modeEnterBranch
                 /\ branchName' = <<>>
                 /\ UNCHANGED <<error, batches>>
            ELSE /\ processProjects(<<>>)
                 /\ UNCHANGED <<mode, branchName, error>>
    /\ UNCHANGED <<selected, cursor, action, processing, quit, fatal, repo, remote>>

\* The same assignment made while a Tick function that holds this very map is
\* in its range statement: an unsynchronised map write during a map
\* iteration, on which the runtime may throw ("concurrent map iteration and
\* map write") instead of carrying on as in ProjectSelectToggle.
ProjectSelectToggleThrows(key) ==
    /\ key = " "
    /\ \E k \in DOMAIN batches : batches[k].shared /\ batches[k].pc = "range"
    /\ fatal' = TRUE
    /\ UNCHANGED <<selected, cursor, mode, action, branchName, processing, error,
                   quit, batches, repo, remote>>

updateProjectSelect ==
    /\ Running
    /\ nkeys < keyLimit
    /\ nkeys' = nkeys + 1
    /\ UNCHANGED <<startVars, shown>>
    /\ mode = modeSelectProjects
    /\ \E key \in Keys :
        \/ ProjectSelectQuit(key)
        \/ ProjectSelectEsc(key)
        \/ ProjectSelectUp(key)
        \/ ProjectSelectDown(key)
        \/ ProjectSelectToggle(key)
        \/ ProjectSelectToggleThrows(key)
        \/ ProjectSelectAll(key)
        \/ ProjectSelectEnter(key)

\* BranchInputQuit with "q" taken as a character of the name.
BranchInputQuitTyped(key) ==
    /\ key \in {"q", "ctrl+c"}
    /\ branchName' = IF Len(branchName) < MaxNameLen THEN Append(branchName, key)
                     ELSE branchName
    /\ UNCHANGED <<selected, cursor, mode, action, processing, error, quit,
                   fatal, batches, repo, remote>>

\* ------------------------------------------------------------- updateBranchInput
BranchInputQuit(key) ==
    /\ key \in {"q", "ctrl+c"}
    /\ quit' = TRUE
    /\ UNCHANGED <<selected, cursor, mode, action, branchName, processing, error,
                   fatal, batches, repo, remote>>

\* BranchInputEsc doing what esc does in the project screen.
BranchInputEscResets(key) ==
    /\ key = "esc"
    /\ mode' = modeSelectProjects
    /\ cursor' = 0
    /\ selected' = EmptyMap
    /\ batches' = Detach(batches)
    /\ UNCHANGED <<action, branchName, processing, error, quit, fatal, repo,
                   remote>>

BranchInputEsc(key) ==
    /\ key = "esc"
    /\ mode' = modeSelectProjects
    /\ UNCHANGED <<selected, cursor, action, branchName, processing, error, quit,
                   fatal, batches, repo, remote>>

\* BranchInputEnter with the test for the empty name left out.
BranchInputEnterNoCheck(key) ==
    /\ key = "enter"
    /\ processProjects(branchName)
    /\ UNCHANGED <<selected, cursor, mode, action, branchName, processing, error,
                   quit, fatal, repo, remote>>

BranchInputEnter(key) ==
    /\ key = "enter"
    /\ IF branchName = <<>>
       THEN /\ error' = "Branch name cannot be empty"
            /\ UNCHANGED batches
       ELSE /\ processProjects(branchName)
            /\ UNCHANGED error
    /\ UNCHANGED <<selected, cursor, mode, action, branchName, processing, quit,
                   fatal, repo, remote>>

BranchInputBackspace(key) ==
    /\ key = "backspace"
    /\ branchName' = IF Len(branchName) > 0
                     THEN SubSeq(branchName, 1, Len(branchName) - 1)
                     ELSE branchName
    /\ UNCHANGED <<selected, cursor, mode, action, processing, error, quit,
                   fatal, batches, repo, remote>>

BranchInputDefault(key) ==
    /\ key \notin {"q", "ctrl+c", "esc", "enter", "backspace"}
    /\ IF KeyLen(key) = 1
       THEN /\ Len(branchName) < MaxNameLen
            /\ branchName' = Append(branchName, key)
       ELSE UNCHANGED branchName
    /\ UNCHANGED <<selected, cursor, mode, action, processing, error, quit,
                   fatal, batches, repo, remote>>

updateBranchInput ==
    /\ Running
    /\ nkeys < keyLimit
    /\ nkeys' = nkeys + 1
    /\ UNCHANGED <<startVars, shown>>
    /\ mode = modeEnterBranch
    /\ \E key \in Keys :
        \/ BranchInputQuit(key)
        \/ BranchInputEsc(key)
        \/ BranchInputEnter(key)
        \/ BranchInputBackspace(key)
        \/ BranchInputDefault(key)

\* ------------------------------------------------------------- the Tick function
\* The function returns: its locals and its reference to the map are dead.
Returned(b, m, e) ==
    [b EXCEPT !.pc = "returned", !.msg = m, !.err = e, !.cur = NoProject,
              !.shared = FALSE, !.sel = EmptyMap, !.atStart = {}, !.visited = {}]

\* tea.Tick(100ms, ...): the timer fires and the function starts its range
\* statement over m.selected.
TickFires(k) ==
    /\ Running
    /\ batches[k].pc = "tick"
    /\ batches' = [batches EXCEPT ![k].pc = "range",
                                  ![k].atStart = DOMAIN BatchMap(batches[k])]
    /\ UNCHANGED <<uiVars, repo, remote, startVars, shown>>

\* for id, selected := range m.selected: the next entry, in any order; an
\* entry with value false is skipped (continue), another starts switchBranch.
RangeNext(k) ==
    /\ Running
    /\ batches[k].pc = "range"
    /\ \E id \in (DOMAIN BatchMap(batches[k])) \ batches[k].visited :
        batches' = [batches EXCEPT
            ![k].visited = @ \cup {id},
            ![k].cur = IF BatchMap(batches[k])[id] THEN id ELSE NoProject,
            ![k].pc = IF BatchMap(batches[k])[id] THEN "stash" ELSE "range"]
    /\ UNCHANGED <<uiVars, repo, remote, startVars, shown>>

\* The range statement ends: every entry present at its start was produced
\* (an entry created during the iteration may be skipped), and the function
\* returns msg{Type: msgProcessComplete}.
RangeEnd(k) ==
    /\ Running
    /\ batches[k].pc = "range"
    /\ batches[k].atStart \subseteq batches[k].visited
    /\ batches' = [batches EXCEPT ![k] = Returned(@, msgProcessComplete, "")]
    /\ UNCHANGED <<uiVars, repo, remote, startVars, shown>>

\* The closure after one command of switchBranch on its current project.
\* An error returned by switchBranch makes the Tick function return
\* msg{Type: msgError} at once.
AfterStage(b, stage, ok) ==
    IF Aborts(stage, ok)
    THEN Returned([b EXCEPT !.ret[b.cur] = StageError(stage)], msgError,
                  StageError(stage))
    ELSE IF NextStage(stage, b.branch) = "done"
         THEN [b EXCEPT !.pc = "range", !.ret[b.cur] = "Success", !.cur = NoProject]
         ELSE [b EXCEPT !.pc = NextStage(stage, b.branch)]

\* exec.Command("git", "-C", projectPath, ...).Run() for the stage the
\* closure is at.
RunStage(k, stage) ==
    /\ Running
    /\ batches[k].pc = stage
    /\ LET b == batches[k]
           p == b.cur
           ok == GitOk(stage, repo[p], remote[p], b.branch)
       IN /\ repo' = [repo EXCEPT ![p] = GitApply(stage, repo[p], remote[p], b.branch)]
          /\ batches' = [batches EXCEPT ![k] = AfterStage(b, stage, ok)]
    /\ UNCHANGED <<uiVars, remote, startVars, shown>>

Stash(k) == RunStage(k, "stash")
Fetch(k) == RunStage(k, "fetch")
BranchD(k) == RunStage(k, "branchD")
Checkout(k) == RunStage(k, "checkout")
Pull(k) == RunStage(k, "pull")
CheckoutB(k) == RunStage(k, "checkoutB")

\* Update receives the message the function returned.  It is no tea.KeyMsg,
\* so Update returns m, nil.
UpdateOther(k) ==
    /\ Running
    /\ batches[k].pc = "returned"
    /\ batches' = [batches EXCEPT ![k].pc = "consumed"]
    /\ UNCHANGED <<uiVars, repo, remote, startVars, shown>>

\* View(): renders the error, if any, above the screen of the current mode.
\* View has a value receiver, so its `m.error = ""` assigns to its own copy
\* of the model and the model the program keeps is left as it was.
View ==
    /\ Running
    /\ shown' = error
    /\ UNCHANGED <<uiVars, batches, repo, remote, startVars>>

Next ==
    \/ updateActionSelect
    \/ updateProjectSelect
    \/ updateBranchInput
    \/ \E k \in DOMAIN batches : UpdateOther(k)
    \/ \E k \in DOMAIN batches : TickFires(k)
    \/ \E k \in DOMAIN batches : RangeNext(k)
    \/ \E k \in DOMAIN batches : RangeEnd(k)
    \/ \E k \in DOMAIN batches : Stash(k)
    \/ \E k \in DOMAIN batches : Fetch(k)
    \/ \E k \in DOMAIN batches : BranchD(k)
    \/ \E k \in DOMAIN batches : Checkout(k)
    \/ \E k \in DOMAIN batches : Pull(k)
    \/ \E k \in DOMAIN batches : CheckoutB(k)
    \/ View

Spec == Init /\ [][Next]_vars

\* ------------------------------------------------------------- key handling alone
FixedRepo == [head |-> "main", localMain |-> TRUE, branches |-> {}, stashFails |-> FALSE]


\* The key handlers and View never read repo or remote, and nothing but the
\* handlers (and the runtime throw, which needs a started Tick function)
\* writes the model: the handlers are run here against one fixed set of
\* repositories, with the timers firing but no git command run, for more
\* key presses than Spec affords.
InitUI ==
    /\ selected = EmptyMap
    /\ cursor = 0
    /\ mode = modeSelectAction
    /\ action = 0
    /\ branchName = <<>>
    /\ processing = FALSE
    /\ error = ""
    /\ quit = FALSE
    /\ fatal = FALSE
    /\ batches = <<>>
    /\ repo = [p \in Projects |-> FixedRepo]
    /\ remote = [p \in Projects |-> "ok"]
    /\ repoInit = repo
    /\ nkeys = 0
    /\ shown = ""
    /\ dirs = StartDir
    /\ found = [done |-> TRUE, projects |-> findProjects(StartDir)]
    /\ keyLimit = MaxUIKeys

NextUI ==
    \/ updateActionSelect
    \/ updateProjectSelect
    \/ updateBranchInput
    \/ \E k \in DOMAIN batches : TickFires(k)
    \/ View

SpecUI == InitUI /\ [][NextUI]_vars

\* ------------------------------------------------------------- the Tick function alone
\* processProjects as a function of its inputs: the state right after a
\* confirm that launched it with one repository selected (the others
\* deselected or never marked), for each branch name that can be typed (""
\* for the plain switch), each state of that repository and each remote
\* answer; no further key is pressed.
BranchChars == {" ", "a"}

BranchNames == UNION {[1 .. n -> BranchChars] : n \in 0 .. MaxNameLen}

\* The maps that select exactly project p.
OnlySelected(p) ==
    {m \in UNION {[ks -> BOOLEAN] : ks \in SUBSET Projects} :
        p \in DOMAIN m /\ SelectedSet(m) = {p}}

InitBatch ==
    \E name \in BranchNames, p \in Projects :
        /\ selected \in OnlySelected(p)
        /\ cursor = 0
        /\ mode = IF name = <<>> THEN modeSelectProjects ELSE modeEnterBranch
        /\ action = IF name = <<>> THEN 0 ELSE 1
        /\ branchName = name
        /\ processing = FALSE
        /\ error = ""
        /\ quit = FALSE
        /\ fatal = FALSE
        /\ batches = <<NewBatch(name)>>
        /\ repo \in {[q \in Projects |-> IF q = p THEN g ELSE FixedRepo] :
                         g \in RepoStates}
        /\ remote \in {[q \in Projects |-> IF q = p THEN rm ELSE "ok"] :
                           rm \in RemoteInits}
        /\ repoInit = repo
        /\ nkeys = MaxKeys
        /\ shown = ""
        /\ dirs = StartDir
        /\ found = [done |-> TRUE, projects |-> findProjects(StartDir)]
        /\ keyLimit = MaxKeys

NextBatch ==
    \/ \E k \in DOMAIN batches : UpdateOther(k)
    \/ \E k \in DOMAIN batches : TickFires(k)
    \/ \E k \in DOMAIN batches : RangeNext(k)
    \/ \E k \in DOMAIN batches : RangeEnd(k)
    \/ \E k \in DOMAIN batches : Stash(k)
    \/ \E k \in DOMAIN batches : Fetch(k)
    \/ \E k \in DOMAIN batches : BranchD(k)
    \/ \E k \in DOMAIN batches : Checkout(k)
    \/ \E k \in DOMAIN batches : Pull(k)
    \/ \E k \in DOMAIN batches : CheckoutB(k)

SpecBatch == InitBatch /\ [][NextBatch]_vars

\* ------------------------------------------------------------- a run from the project screen
\* A repository on another branch than main, with a local main: every command
\* of switchBranch succeeds on it against a remote that answers.
ReadyRepo == [head |-> "other", localMain |-> TRUE, branches |-> {}, stashFails |-> FALSE]

\* What branchName holds when nothing was typed before, and when "a" was
\* typed and abandoned with esc.
LeftNames == {<<>>, <<"a">>}

\* The whole program, handlers and Tick functions, from the project screen
\* as a run may find it after confirms, backs and toggles: one repository
\* selected, either action recorded, and in branchName what was left there.
\* nkeys counts the key presses from there on.
InitRun ==
    /\ \E p \in Projects : selected = MapSet(EmptyMap, p, TRUE)
    /\ cursor = 0
    /\ mode = modeSelectProjects
    /\ action \in {0, 1}
    /\ branchName \in LeftNames
    /\ processing = FALSE
    /\ error = ""
    /\ quit = FALSE
    /\ fatal = FALSE
    /\ batches = <<>>
    /\ repo = [p \in Projects |-> ReadyRepo]
    /\ remote = [p \in Projects |-> "ok"]
    /\ repoInit = repo
    /\ nkeys = 0
    /\ shown = ""
    /\ dirs = StartDir
    /\ found = [done |-> TRUE, projects |-> findProjects(StartDir)]
    /\ keyLimit = MaxRunKeys

NextRun ==
    \/ updateActionSelect
    \/ updateProjectSelect
    \/ updateBranchInput
    \/ \E k \in DOMAIN batches : UpdateOther(k)
    \/ \E k \in DOMAIN batches : TickFires(k)
    \/ \E k \in DOMAIN batches : RangeNext(k)
    \/ \E k \in DOMAIN batches : RangeEnd(k)
    \/ \E k \in DOMAIN batches : Stash(k)
    \/ \E k \in DOMAIN batches : Fetch(k)
    \/ \E k \in DOMAIN batches : BranchD(k)
    \/ \E k \in DOMAIN batches : Checkout(k)
    \/ \E k \in DOMAIN batches : Pull(k)
    \/ \E k \in DOMAIN batches : CheckoutB(k)

SpecRun == InitRun /\ [][NextRun]_vars

\* ------------------------------------------------------------- startup alone
\* main() up to the construction of the model, for each parent directory.
InitFind ==
    /\ selected = EmptyMap
    /\ cursor = 0
    /\ mode = modeSelectAction
    /\ action = 0
    /\ branchName = <<>>
    /\ processing = FALSE
    /\ error = ""
    /\ quit = FALSE
    /\ fatal = FALSE
    /\ batches = <<>>
    /\ repo = [p \in Projects |-> FixedRepo]
    /\ remote = [p \in Projects |-> "ok"]
    /\ repoInit = repo
    /\ nkeys = 0
    /\ shown = ""
    /\ dirs \in Listings
    /\ found = NotFound
    /\ keyLimit = 0

\* projects := findProjects()
FindProjects ==
    /\ ~found.done
    /\ found' = [done |-> TRUE, projects |-> findProjects(dirs)]
    /\ UNCHANGED <<uiVars, batches, repo, remote, repoInit, shown, dirs, keyLimit>>

\* if len(projects) == 0 { ...; os.Exit(1) }
ExitNoProjects ==
    /\ found.done
    /\ ~quit
    /\ Len(found.projects) = 0
    /\ quit' = TRUE
    /\ UNCHANGED <<selected, cursor, mode, action, branchName, processing, error,
                   fatal, nkeys, batches, repo, remote, startVars, shown>>

NextFind == FindProjects \/ ExitNoProjects

SpecFind == InitFind /\ [][NextFind]_vars

\* ============================================================= claims
\* The Tick function of batch b has returned its message.
Done(b) == b.pc \in {"returned", "consumed"}

\* What a switchBranch call returned, as recorded in ret.
RetOf(r) == IF r.err = "" THEN "Success" ELSE r.err

\* The outcome of project p's sequence run alone on the repository as the
\* program found it.
SoloOutcome(p, name) == RetOf(switchBranch(repoInit[p], remote[p], name))

\* C1: isolation.  When a batch over two or more selected repositories has
\* finished and one repository's sequence failed, every other selected
\* repository's sequence has run to an outcome; and when the fetch of exactly
\* one selected repository fails while every other selected repository's
\* sequence succeeds on its own, all the others end in Success.
C1_Isolation ==
    \A k \in DOMAIN batches :
        LET b == batches[k] IN
        (Done(b) /\ Cardinality(b.work) >= 2) =>
            \A p \in b.work :
                /\ b.ret[p] \notin {NoRet, "Success"} =>
                       \A q \in b.work \ {p} : b.ret[q] # NoRet
                /\ ( /\ Len(batches) = 1
                     /\ SoloOutcome(p, b.branch) = "failed to fetch"
                     /\ \A q \in b.work \ {p} : SoloOutcome(q, b.branch) = "Success" )
                   => \A q \in b.work \ {p} : b.ret[q] = "Success"

\* C2: completeness.  When a batch has finished, a repository has an outcome
\* if and only if it was selected at the launching confirm.
C2_Completeness ==
    \A k \in DOMAIN batches :
        Done(batches[k]) =>
            \A p \in Projects : (p \in batches[k].work) <=> (batches[k].ret[p] # NoRet)

\* The message a batch over `work` reports when the repositories are taken
\* in ascending selection order.
InOrderReport(work, name) ==
    LET failing == {p \in work : SoloOutcome(p, name) # "Success"}
        first == CHOOSE p \in failing : \A q \in failing : p <= q
    IN IF failing = {} THEN <<msgProcessComplete, "">>
       ELSE <<msgError, SoloOutcome(first, name)>>

\* C3: the result follows selection order.  Whatever order the
\* per-repository work was done in, the first batch of a run reports what
\* taking its selected repositories in ascending selection order reports.
C3_SelectionOrder ==
    (Len(batches) = 1 /\ Done(batches[1]) /\ batches[1].work = SelectedSet(selected)) =>
        <<batches[1].msg, batches[1].err>> =
            InOrderReport(batches[1].work, batches[1].branch)

\* The selected repositories of batch b whose sequence has not started.
Pending(b) == SelectedSet(BatchMap(b)) \ b.visited

\* C4: the sequences of one batch run concurrently.  While one repository's
\* sequence is in progress and another selected repository's has not
\* started, the other's sequence can start, which gives a state with two
\* sequences started and neither finished.
C4_Concurrent ==
    \A k \in DOMAIN batches :
        (Running /\ batches[k].cur # NoProject /\ Pending(batches[k]) # {}) =>
            ENABLED (RangeNext(k) /\ batches'[k].cur # NoProject)

\* An already-up-to-date repository: main is checked out.
UpToDate(g) == g.head = "main" /\ g.localMain

\* C5: SwitchToMain is idempotent.  On every up-to-date repository whose
\* remote is reachable and has origin/main, switchBranch with no branch
\* name returns nil, and returns nil again when run a second time on the
\* repository the first run left.
C5_Idempotent ==
    \A p \in Projects :
        (remote[p] = "ok" /\ UpToDate(repo[p])) =>
            LET first == switchBranch(repo[p], remote[p], <<>>)
                second == switchBranch(first.repo, remote[p], <<>>)
            IN first.err = "" /\ second.err = ""

\* C6: toggle-all.  A toggle-all step clears the selection when the selected
\* repositories are all the repositories, and otherwise selects them all.
C6_ToggleAll ==
    [][(mode = modeSelectProjects /\ ProjectSelectAll("a")) =>
         SelectedSet(selected') =
            IF SelectedSet(selected) = Projects THEN {} ELSE Projects]_vars

\* C7: confirming with nothing selected.  A confirm step in the project
\* screen while no repository is selected sets the error message, keeps the
\* mode and the selection, and launches no batch.
C7_EmptyConfirm ==
    [][(mode = modeSelectProjects /\ ProjectSelectEnter("enter")
            /\ SelectedSet(selected) = {}) =>
         /\ error' = "No projects selected"
         /\ mode' = mode
         /\ selected' = selected
         /\ batches' = batches]_vars

\* C8: a confirm that launches a batch leaves the mode at Processing.
C8_LaunchEntersProcessing ==
    [][Len(batches') > Len(batches) => mode' = modeProcessing]_vars

\* A batch has been launched and its function has not returned.
InFlight == \E k \in DOMAIN batches : ~Done(batches[k])

\* C9: no interaction while a batch is in flight.  No step taken while a
\* batch is in flight changes the selection, the mode, the action or the
\* branch name, or launches another batch.
C9_NotInteractive ==
    [][InFlight =>
         /\ SelectedSet(selected') = SelectedSet(selected)
         /\ mode' = mode
         /\ action' = action
         /\ branchName' = branchName
         /\ Len(batches') = Len(batches)]_vars

\* The screens that take input.
InputModes == {modeSelectAction, modeSelectProjects, modeEnterBranch}

\* C10: completion leads to the results.  Once Update has consumed a
\* batch's completion message the state machine has left the input screens
\* for a state that shows the batch's results.
C10_ResultsShown ==
    \A k \in DOMAIN batches :
        batches[k].pc = "consumed" => mode \notin InputModes

\* The position of a step in the order the claims give: stash, fetch,
\* delete local main, checkout main, pull, create branch.
StagePos(stage) ==
    CASE stage = "stash" -> 1
      [] stage = "fetch" -> 2
      [] stage = "branchD" -> 3
      [] stage = "checkout" -> 4
      [] stage = "pull" -> 5
      [] stage = "checkoutB" -> 6
      [] OTHER -> 0

\* C11: step order.  Within one repository's sequence a step is invoked only
\* when the step before it in the order stash, fetch, delete local main,
\* checkout main, pull, create branch has returned, on the same repository;
\* the sequence starts with stash; pull is invoked only after checkout main
\* succeeded, and create branch only after pull succeeded and only when a
\* branch name was given.
C11_StepOrder ==
    [][\A k \in DOMAIN batches :
        LET b == batches[k]
            b2 == batches'[k]
        IN (b2.pc # b.pc /\ StagePos(b2.pc) > 0) =>
            /\ b2.pc = "stash" => b.pc = "range"
            /\ b2.pc # "stash" =>
                /\ StagePos(b.pc) + 1 = StagePos(b2.pc)
                /\ b2.cur = b.cur
            /\ b2.pc = "pull" =>
                GitOk("checkout", repo[b.cur], remote[b.cur], b.branch)
            /\ b2.pc = "checkoutB" =>
                /\ GitOk("pull", repo[b.cur], remote[b.cur], b.branch)
                /\ b.branch # <<>>]_vars

\* A sequence ran all six steps: it created the branch and returned nil.
C11_Witness ==
    \E k \in DOMAIN batches : \E p \in Projects :
        /\ batches[k].branch # <<>>
        /\ batches[k].ret[p] = "Success"
        /\ repo[p].head = "feature"

\* The steps whose failure the claims say aborts the sequence, and the
\* failure each is reported as.
RequiredStages == {"fetch", "checkout", "pull", "checkoutB"}

FailureAt(stage) ==
    CASE stage = "fetch" -> "failed to fetch"
      [] stage = "checkout" -> "failed to checkout main"
      [] stage = "pull" -> "failed to pull"
      [] stage = "checkoutB" -> "failed to create branch"

\* C12: first failure aborts.  When the command of a required step (fetch,
\* checkout main, pull, create branch) fails, the sequence returns at once
\* with a failure that names that step, and a sequence that has returned
\* invokes no further step: what it returned stays as it is.
C12_FirstFailureAborts ==
    [][\A k \in DOMAIN batches :
        LET b == batches[k]
            b2 == batches'[k]
            p == b.cur
        IN /\ (/\ b.pc \in RequiredStages
               /\ b2 # b
               /\ ~GitOk(b.pc, repo[p], remote[p], b.branch)) =>
                    /\ b2.pc = "returned"
                    /\ b2.msg = msgError
                    /\ b2.err = FailureAt(b.pc)
                    /\ b2.ret[p] = FailureAt(b.pc)
           /\ Done(b) => (Done(b2) /\ b2.ret = b.ret /\ b2.err = b.err)]_vars

\* A sequence got as far as its last step, create branch, and that failed.
C12_Witness ==
    \E k \in DOMAIN batches : \E p \in Projects :
        /\ Done(batches[k])
        /\ batches[k].ret[p] = "failed to create branch"
        /\ batches[k].err = "failed to create branch"

\* The last step of a sequence: create branch when a name was given, else pull.
LastStage(name) == IF name # <<>> THEN "checkoutB" ELSE "pull"

\* C13: best-effort steps.  Whatever stash and delete local main exit with,
\* the sequence goes on to the next step (fetch, checkout main) on the same
\* repository and records no outcome; and a sequence whose last required
\* step succeeds returns Success.
C13_BestEffort ==
    [][\A k \in DOMAIN batches :
        LET b == batches[k]
            b2 == batches'[k]
            p == b.cur
        IN /\ (b.pc = "stash" /\ b2 # b) =>
                (b2.pc = "fetch" /\ b2.cur = p /\ b2.ret = b.ret)
           /\ (b.pc = "branchD" /\ b2 # b) =>
                (b2.pc = "checkout" /\ b2.cur = p /\ b2.ret = b.ret)
           /\ (/\ b.pc = LastStage(b.branch)
               /\ b2 # b
               /\ GitOk(b.pc, repo[p], remote[p], b.branch)) =>
                    (b2.ret[p] = "Success" /\ b2.pc = "range")]_vars

\* A sequence returned Success in a repository where stash fails and where
\* there was no local main to delete.
C13_Witness ==
    \E k \in DOMAIN batches : \E p \in Projects :
        /\ batches[k].ret[p] = "Success"
        /\ repo[p].stashFails
        /\ ~repoInit[p].localMain

\* C14: double toggle-all.  A toggle-all step taken in the project screen
\* while every repository is selected leaves none selected, and the toggle-all
\* of the selection it leaves selects every repository again.
C14_DoubleToggleAll ==
    [][(/\ mode = modeSelectProjects
        /\ ProjectSelectAll("a")
        /\ SelectedSet(selected) = Projects) =>
            /\ SelectedSet(selected') = {}
            /\ SelectedSet(ToggleAll(selected')) = Projects]_vars

\* The second key of a run was a toggle-all of the full selection, and a
\* further key can be pressed.
C14_Witness ==
    /\ mode = modeSelectProjects
    /\ nkeys = 2
    /\ selected = EmptyMap
    /\ nkeys < keyLimit
    /\ Running

C16_ConfirmAction ==
    [][(mode = modeSelectAction /\ ActionSelectEnter("enter")) =>
            /\ action' = cursor
            /\ SelectedSet(selected') = Projects
            /\ cursor' = 0
            /\ mode' = modeSelectProjects]_vars

\* The plain switch was confirmed and launched, then, after a back, the
\* second action was confirmed.
C16_Witness ==
    /\ mode = modeSelectProjects
    /\ action = 1
    /\ cursor = 0
    /\ SelectedSet(selected) = Projects
    /\ Len(batches) = 1
    /\ batches[1].branch = <<>>

\* C17: confirming an empty branch name.  A confirm step in the branch
\* screen while the name is empty sets the error message, keeps the mode, the
\* selection and the action, and launches no batch.
C17_EmptyNameConfirm ==
    [][(mode = modeEnterBranch /\ BranchInputEnter("enter") /\ branchName = <<>>) =>
            /\ error' = "Branch name cannot be empty"
            /\ mode' = mode
            /\ selected' = selected
            /\ action' = action
            /\ batches' = batches]_vars

\* The empty name was confirmed.
C17_Witness ==
    /\ mode = modeEnterBranch
    /\ branchName = <<>>
    /\ error = "Branch name cannot be empty"
    /\ batches = <<>>

\* C18: back from the branch screen.  No step taken in the branch screen
\* changes the selection, the action or the cursor, so they are at the back
\* step what they were on entering; and the back step moves to the project
\* screen.
C18_BackKeepsSelection ==
    [][mode = modeEnterBranch =>
            /\ selected' = selected
            /\ action' = action
            /\ cursor' = cursor
            /\ BranchInputEsc("esc") => mode' = modeSelectProjects]_vars

\* A name was typed in the branch screen and a back step returned to the
\* project screen (a confirm of that name would have launched a batch).
C18_Witness ==
    /\ mode = modeSelectProjects
    /\ branchName # <<>>
    /\ action = 1
    /\ batches = <<>>
    /\ SelectedSet(selected) # {}

\* A key press that is the quit intent, in each of the three screens.
QuitStep ==
    \/ mode = modeSelectAction /\ ActionSelectQuit("q")
    \/ mode = modeSelectProjects /\ ProjectSelectQuit("q")
    \/ mode = modeEnterBranch /\ BranchInputQuit("q")

\* C19: quit.  In every state of the running program in one of the three
\* screens (with a key press left in the run) a quit step can be taken; a
\* quit step ends the program, keeps the selection, the action and the branch
\* name, and launches no batch.
C19_Quit ==
    /\ []((Running /\ mode \in InputModes /\ nkeys < keyLimit) =>
            ENABLED (QuitStep /\ nkeys' = nkeys + 1 /\ UNCHANGED <<startVars, shown>>))
    /\ [][QuitStep =>
            /\ quit'
            /\ selected' = selected
            /\ action' = action
            /\ branchName' = branchName
            /\ batches' = batches]_vars

\* The program was quit from the branch screen with a name typed.
C19_Witness ==
    /\ quit
    /\ mode = modeEnterBranch
    /\ branchName # <<>>
    /\ batches = <<>>

\* The children of the parent directory that qualify: directories that
\* directly hold a .git directory.
Qualifying == {n \in DOMAIN dirs : dirs[n] = "gitdir"}

\* C20: discovery.  What findProjects returns names exactly the qualifying
\* children of the parent directory, each once, by strictly ascending
\* byte-wise order of name, each with its path under the parent directory.
C20_Discovery ==
    found.done =>
        LET ps == found.projects
        IN /\ Len(ps) = Cardinality(Qualifying)
           /\ {ps[i].name : i \in 1 .. Len(ps)} = Qualifying
           /\ \A i \in 1 .. Len(ps) : \A j \in 1 .. Len(ps) :
                i < j => ByteLess(ps[i].name, ps[j].name)
           /\ \A i \in 1 .. Len(ps) : ps[i].path = <<"parentDir", ps[i].name>>

\* findProjects returned two repositories from a parent directory that also
\* holds a directory whose .git is a file.
C20_Witness ==
    /\ found.done
    /\ Len(found.projects) = 2
    /\ \E n \in DOMAIN dirs : dirs[n] = "gitfile"

\* C21: the work set.  The repositories a batch runs a sequence on are
\* repositories selected at the launching confirm, and a batch that ran to the
\* end of its loop ran a sequence on every one of them; and no key press is
\* handled as a write to the selection map while a batch reads it.
C21_WorkSet ==
    /\ \A k \in DOMAIN batches :
        LET b == batches[k]
        IN /\ \A p \in Projects :
                (b.ret[p] # NoRet \/ b.cur = p) => p \in b.work
           /\ b.msg = msgProcessComplete =>
                \A p \in b.work : b.ret[p] # NoRet
    /\ ~fatal

\* The map with its false entries removed: the same repositories selected,
\* every unselected index absent.
Canon(m) == [i \in SelectedSet(m) |-> TRUE]

\* C22: absent means false.  In the project screen, toggle-one at each
\* cursor, toggle-all and confirm act on the selection map as they act on the
\* map that selects the same repositories with its false entries absent: the
\* same repositories are selected afterwards, and confirm takes the same
\* branch (error, or launch or branch screen).
C22_AbsentIsFalse ==
    mode = modeSelectProjects =>
        /\ \A c \in Projects :
            SelectedSet(ToggleOne(selected, c)) = SelectedSet(ToggleOne(Canon(selected), c))
        /\ SelectedSet(ToggleAll(selected)) = SelectedSet(ToggleAll(Canon(selected)))
        /\ NoneSelected(selected) = NoneSelected(Canon(selected))

\* A key press in the branch screen, whichever case of the handler takes it.
BranchInputKey(key) ==
    \/ BranchInputQuit(key)
    \/ BranchInputEsc(key)
    \/ BranchInputEnter(key)
    \/ BranchInputBackspace(key)
    \/ BranchInputDefault(key)

\* C23: typing a name.  In the branch screen a press of a single-character
\* key appends that character to the branch name, keeps the mode and does not
\* end the program.
C23_TypedKeysAppend ==
    [][\A key \in Keys :
        (mode = modeEnterBranch /\ KeyLen(key) = 1 /\ BranchInputKey(key)) =>
            /\ branchName' = Append(branchName, key)
            /\ mode' = modeEnterBranch
            /\ quit' = quit]_vars

\* C24: branch creation.  A confirm that launches a batch hands it a name
\* exactly when the recorded action is create-branch, and then the non-empty
\* branch name held at that confirm; with the plain switch it hands it the
\* empty name, whatever branchName holds.  A batch keeps the name it was
\* handed; its sequences invoke the branch-create step only when that name
\* is not empty, invoke it after every successful pull when it is not, and
\* create the branch of that name.
C24_BranchCreate ==
    [][/\ Len(batches') > Len(batches) =>
            LET nb == batches'[Len(batches')]
            IN /\ nb.branch # <<>> <=> action = 1
               /\ action = 1 => (nb.branch = branchName /\ branchName # <<>>)
       /\ \A k \in DOMAIN batches :
            LET b == batches[k]
                b2 == batches'[k]
                p == b.cur
            IN /\ b2.branch = b.branch
               /\ (b2.pc = "checkoutB" /\ b.pc # "checkoutB") => b.branch # <<>>
               /\ (/\ b.pc = "pull"
                   /\ b2.pc # "pull"
                   /\ GitOk("pull", repo[p], remote[p], b.branch)
                   /\ b.branch # <<>>) => b2.pc = "checkoutB"
               /\ (/\ b.pc = "checkoutB"
                   /\ b2.pc # "checkoutB"
                   /\ GitOk("checkoutB", repo[p], remote[p], b.branch)) =>
                        (b.branch \in repo'[p].branches /\ repo'[p].head = "feature")]_vars

\* With a name left in branchName from before, the plain switch was launched
\* and ran a sequence to Success that created no branch.
C24_Witness ==
    \E k \in DOMAIN batches : \E p \in Projects :
        /\ batches[k].branch = <<>>
        /\ batches[k].ret[p] = "Success"
        /\ branchName # <<>>
        /\ action = 0
        /\ repo[p].branches = {}
        /\ repo[p].head = "main"

\* C25: cursor and index bounds.  The cursor is 0 or 1 in the action screen
\* and a repository index in the project and branch screens; every key of
\* the selection map, and every key a Tick function took from it when its
\* range statement started, is a repository index.
C25_IndexBounds ==
    /\ mode = modeSelectAction => cursor \in {0, 1}
    /\ mode \in {modeSelectProjects, modeEnterBranch} => cursor \in Projects
    /\ DOMAIN selected \subseteq Projects
    /\ \A k \in DOMAIN batches :
        /\ DOMAIN BatchMap(batches[k]) \subseteq Projects
        /\ batches[k].atStart \subseteq Projects
        /\ batches[k].work \subseteq Projects

\* The cursor stands on the last repository, whose index was written to the
\* map by a toggle, and one more move down was possible in the run.
C25_Witness ==
    /\ mode = modeSelectProjects
    /\ cursor = NumProjects - 1
    /\ cursor \in DOMAIN selected
    /\ ~selected[cursor]
    /\ nkeys >= NumProjects + 2

====
